---- MODULE Spec2Model ----
(***************************************************************************)
(* Session authentication protocol of citizenwallet/sessions: the request  *)
(* (POST) and confirm (PATCH) handlers of /api/v1/app/[alias]/session, the  *)
(* hash chain and signature checks of services/session, and the ledger     *)
(* record they read back.  Hashes and signatures are modelled as ideal     *)
(* (collision-free, unforgeable) structured values.                        *)
(***************************************************************************)
EXTENDS Integers, Sequences, FiniteSets, TLC

(* ---------------------------------------------------------------- bounds *)
MaxTicks == 2        \* clock advances explored
MaxRequests == 2     \* request calls the ledger accepts in one behaviour
T0 == 1000           \* clock reading (seconds) of the initial state

(* ------------------------------------------------------- program values *)
ChallengeHorizon == 120   \* requestSession: challengeExpiry = now + 120
OtpDigits == 6            \* generateSessionChallenge: generateOtp(6)
ResultLength == 5         \* verifyIncomingSessionRequest: result.length < 5

TickSteps == {1, 119}
ExpiryOffsets == {-1, 1, 120, 300}
RandomDenom == 9          \* Math.random() is r/RandomDenom, r in 0..RandomDenom-1
RandomSamples == {0, 3}   \* the draws the handlers are run with
ImmediateWindow == 30     \* getImmediateSessionRequestCount: Date.now() - 30 * 1000

ServiceKey == "SVC"
OwnerKey == "O1"
OtherKey == "O2"
ConfiguredProvider == "0xP1"
OtherProvider == "0xP2"
OwnerAddress == "0xO1"
BundledAlias == "wallet.pay.brussels"
ListedAlias == "gratitude"
UnknownAlias == "nope"

(* checksummed address of a private key, as ethers' verifyMessage returns it *)
AddressOf(k) ==
  CASE k = "O1" -> "0xO1"
    [] k = "O2" -> "0xO2"
    [] k = "SVC" -> "0xSVC"
    [] OTHER -> "0xGarbage"

(* the 20 bytes an address string encodes: letter case is not part of them *)
AddressBytes(a) ==
  CASE a = "0xo1" -> "0xO1"
    [] a = "0xp1" -> "0xP1"
    [] OTHER -> a

(* String.prototype.toLowerCase().trim() on the sources the model draws *)
LowerTrim(s) ==
  CASE s = " U@X.io " -> "u@x.io"
    [] OTHER -> s

(* phone.replace("+", "") on the phone numbers the model draws *)
StripPlus(s) ==
  CASE s = "+3247" -> "3247"
    [] OTHER -> s

(* the all-lower-case spelling of an address *)
LowerCase(a) ==
  CASE a = "0xO1" -> "0xo1"
    [] a = "0xP1" -> "0xp1"
    [] OTHER -> a

(* ------------------------------------------------------------ HashChain *)
(* fault-injected variant: the source is left out of the salt *)
generateSessionSalt_TypeOnly(source, type) == <<"salt", "", type>>

generateSessionSalt(source, type) == <<"salt", source, type>>

(* what ethers' AbiCoder.encode accepts for an 'address' *)
Addresses == {"0xO1", "0xO2", "0xSVC", "0xP1", "0xP2", "0xo1", "0xp1", "0xGarbage"}
IsAddress(a) == a \in Addresses
BadAddress == "0xZZ"

(* what it accepts for a 'uint48': 0 <= n < 2^48, the upper limit computed *)
(* in two halves of 24 bits                                                *)
Uint48Bits == 48
InUint48(n) ==
  n >= 0 /\ (n \div (2 ^ (Uint48Bits \div 2))) < 2 ^ (Uint48Bits \div 2)

(* the value standing for an encode call that threw *)
EncodingError == <<"encoding error">>

(* fault-injected variant: the encoder takes any value as it comes *)
generateSessionRequestHash_Unchecked(sessionProvider, sessionOwner, salt, expiry) ==
  <<"srh", AddressBytes(sessionProvider), AddressBytes(sessionOwner), salt, expiry>>

generateSessionRequestHash(sessionProvider, sessionOwner, salt, expiry) ==
  IF ~IsAddress(sessionProvider) \/ ~IsAddress(sessionOwner) \/ ~InUint48(expiry)
  THEN EncodingError
  ELSE <<"srh", AddressBytes(sessionProvider), AddressBytes(sessionOwner), salt, expiry>>

(* fault-injected variant: the challenge is left out of the encoding *)
generateSessionHash_Unbound(sessionRequestHash, challenge) ==
  <<"sh", sessionRequestHash, <<>>>>

generateSessionHash(sessionRequestHash, challenge) ==
  <<"sh", sessionRequestHash, challenge>>

(* Math.floor(10^(count-1) + Math.random() * (9*10^(count-1) - 10^(count-1))) *)
generateOtp(count, r) ==
  (10 ^ (count - 1)) + ((r * (9 * 10 ^ (count - 1) - 10 ^ (count - 1))) \div RandomDenom)

generateSessionChallenge(r) == <<"otp", generateOtp(OtpDigits, r)>>

generateConnectionMessage(owner, expiry) == <<"msg", owner, expiry, "">>

(* ---------------------------------------------------- SignatureVerifier *)
ErrRecover == "invalid signature"
ErrEncoding == "value out-of-bounds"
Malformed == <<"malformed">>
signMessage(key, hash) == <<"sig", key, hash>>

(* ethers verifyMessage: throws on an unparsable signature, otherwise     *)
(* recovers the signer when the message is the signed one and an          *)
(* unrelated address when it is not                                       *)
verifyMessage(hash, signature) ==
  IF Len(signature) # 3 \/ hash = <<>> THEN [threw |-> TRUE, address |-> ""]
  ELSE IF signature[3] = hash
       THEN [threw |-> FALSE, address |-> AddressOf(signature[2])]
       ELSE [threw |-> FALSE, address |-> "0xGarbage"]

(* fault-injected variant: the recovered address is not compared to the owner *)
verifySessionRequest_AnySigner(sessionProvider, sessionOwner, source, type, expiry, signature) ==
  LET sessionSalt == generateSessionSalt(source, type)
      sessionRequestHash ==
        generateSessionRequestHash(sessionProvider, sessionOwner, sessionSalt, expiry)
      recovered == verifyMessage(sessionRequestHash, signature)
      encoded == sessionRequestHash # EncodingError
  IN [threw |-> ~encoded \/ recovered.threw,
      err |-> IF ~encoded THEN ErrEncoding ELSE IF recovered.threw THEN ErrRecover ELSE "",
      ok |-> encoded /\ ~recovered.threw,
      hash |-> sessionRequestHash,
      trace |-> <<"generateSessionSalt", "generateSessionRequestHash">>
                \o (IF encoded THEN <<"verifyMessage">> ELSE <<>>)]

verifySessionRequest(sessionProvider, sessionOwner, source, type, expiry, signature) ==
  LET sessionSalt == generateSessionSalt(source, type)
      sessionRequestHash ==
        generateSessionRequestHash(sessionProvider, sessionOwner, sessionSalt, expiry)
      recovered == verifyMessage(sessionRequestHash, signature)
      encoded == sessionRequestHash # EncodingError
  IN [threw |-> ~encoded \/ recovered.threw,
      err |-> IF ~encoded THEN ErrEncoding ELSE IF recovered.threw THEN ErrRecover ELSE "",
      ok |-> encoded /\ (~recovered.threw) /\ recovered.address = sessionOwner,
      hash |-> sessionRequestHash,
      trace |-> <<"generateSessionSalt", "generateSessionRequestHash">>
                \o (IF encoded THEN <<"verifyMessage">> ELSE <<>>)]

(* fault-injected variant: any well-formed signature confirms *)
verifySessionConfirm_AnySigner(sessionOwner, sessionHash, signedSessionHash) ==
  LET recovered == verifyMessage(sessionHash, signedSessionHash)
  IN [threw |-> recovered.threw, ok |-> ~recovered.threw]

verifySessionConfirm(sessionOwner, sessionHash, signedSessionHash) ==
  LET recovered == verifyMessage(sessionHash, signedSessionHash)
  IN [threw |-> recovered.threw,
      ok |-> (~recovered.threw) /\ recovered.address = sessionOwner]

(* ------------------------------------------------------ request bodies *)
Undefined == "<undefined>"          \* a field the JSON body does not carry
Falsy(v) == v \in {"", Undefined}   \* !v for a string-or-missing field
NoSignature == <<>>
NoBody == [present |-> FALSE, provider |-> Undefined, owner |-> Undefined,
           source |-> Undefined, type |-> Undefined, expiry |-> 0,
           signature |-> NoSignature]

SourceTypes == {"email", "sms", "passkey"}

(* messages of the Errors the handlers throw *)
ErrBody == "Request body is required"
ErrProviderBody == "Invalid provider address in request body"
ErrOwnerBody == "Invalid owner address in request body"
ErrSourceBody == "Invalid source in request body"
ErrTypeBody == "Invalid source type. Must be \"email\", \"sms\", or \"passkey\""
ErrExpiryBody == "Invalid expiry in request body"
ErrSignatureBody == "Invalid signature in request body"
ErrKey == "PROVIDER_PRIVATE_KEY is not set"
ErrConfigUrl == "COMMUNITIES_CONFIG_URL is not set"
ErrNoCommunity == "No community config found for"
ErrProvider == "Invalid provider address"
ErrSignature == "Invalid session signature"
ErrChallenge == "Challenge generation failed"
ErrConfirm == "Invalid session confirm"
ErrSessionHash == "Invalid session hash"
ErrNotFound == "Session request not found"
ErrSessionExpired == "Session request expired"
ErrChallengeExpired == "Challenge expired"
ErrFetch == "fetch failed"
ErrBigInt == "Cannot convert to BigInt"
ErrRelay == "bundler call failed"
ErrEmail == "Failed to email"
ErrSMS == "Failed to send SMS"
ErrType == "TypeError"

(* error.message.includes('in request body') *)
IncludesInRequestBody(m) ==
  m \in {ErrProviderBody, ErrOwnerBody, ErrSourceBody, ErrExpiryBody, ErrSignatureBody}

sanitizeSessionRequest(body) ==
  IF ~body.present THEN [err |-> ErrBody, val |-> body]
  ELSE IF Falsy(body.provider) THEN [err |-> ErrProviderBody, val |-> body]
  ELSE IF Falsy(body.owner) THEN [err |-> ErrOwnerBody, val |-> body]
  ELSE IF Falsy(body.source) THEN [err |-> ErrSourceBody, val |-> body]
  ELSE IF body.type \notin SourceTypes THEN [err |-> ErrTypeBody, val |-> body]
  ELSE IF body.expiry = 0 THEN [err |-> ErrExpiryBody, val |-> body]
  ELSE IF body.signature = NoSignature THEN [err |-> ErrSignatureBody, val |-> body]
  ELSE [err |-> "",
        val |-> [body EXCEPT !.source =
                   IF body.type = "email" THEN LowerTrim(body.source) ELSE body.source]]

(* ------------------------------------------------ configuration lookup *)
(* services/community.ts: the bundled alias needs no fetch, any other one  *)
(* is looked up in the fetched list of communities                        *)
getConfigOfAlias(alias, urlSet, fetch) ==
  IF ~urlSet THEN [err |-> ErrConfigUrl, fetched |-> FALSE]
  ELSE IF alias = BundledAlias THEN [err |-> "", fetched |-> FALSE]
  ELSE IF fetch = "fail" THEN [err |-> ErrFetch, fetched |-> TRUE]
  ELSE IF alias # ListedAlias THEN [err |-> ErrNoCommunity, fetched |-> TRUE]
  ELSE [err |-> "", fetched |-> TRUE]

ConfigTrace(c) ==
  IF c.fetched THEN <<"getConfigOfAlias", "fetch">> ELSE <<"getConfigOfAlias">>

(* community.primarySessionConfig.provider_address of every known alias *)
primarySessionProvider == ConfiguredProvider

(* fault-injected variant: the provider check is missing *)
ProviderMatches_Always(supplied, configured) == TRUE

(* the handlers' provider check: sessionRequest.provider !== provider_address *)
ProviderMatches(supplied, configured) == supplied = configured

(* ------------------------------------------------------------ outcomes *)
OK == 200
BAD_REQUEST == 400
NOT_FOUND == 404
INTERNAL_SERVER_ERROR == 500

(* the optional fields of a response body: <<>> when undefined, <<v>> when v *)
NoJson == [sessionRequestChallengeHash |-> <<>>, sessionRequestChallengeExpiry |-> <<>>]

NoOutcome ==
  [trace |-> <<>>, err |-> "", http |-> 0, status |-> 0, message |-> "",
   tx |-> "", calls |-> <<>>, sent |-> <<>>, verified |-> <<>>,
   challenge |-> <<>>, read |-> <<>>, logged |-> "", json |-> NoJson]

Response(o, http, status, message) ==
  [o EXCEPT !.http = http, !.status = status, !.message = message]

RequestCall(salt, srh, signedRequestHash, signedSessionHash, expiry, challengeExpiry, provider) ==
  [fn |-> "request", provider |-> provider, salt |-> salt, sessionRequestHash |-> srh,
   signedSessionRequestHash |-> signedRequestHash, sessionHash |-> <<>>,
   signedSessionHash |-> signedSessionHash,
   sessionExpiry |-> expiry, challengeExpiry |-> challengeExpiry]

ConfirmCall(srh, sessionHash, signedSessionHash, provider) ==
  [fn |-> "confirm", provider |-> provider, salt |-> <<>>, sessionRequestHash |-> srh,
   signedSessionRequestHash |-> <<>>, sessionHash |-> sessionHash,
   signedSessionHash |-> signedSessionHash,
   sessionExpiry |-> 0, challengeExpiry |-> 0]

(* fault-injected variant: the challenge lives as long as the session *)
requestSession_SessionHorizon(provider, sessionSalt, sessionRequestHash, signedSessionRequestHash, signedSessionHash, sessionExpiry, t, relay) ==
  LET challengeExpiry == sessionExpiry
      data == RequestCall(sessionSalt, sessionRequestHash, signedSessionRequestHash,
                          signedSessionHash, sessionExpiry, challengeExpiry, provider)
  IN IF relay = "ok" THEN [threw |-> FALSE, tx |-> "0xtx", calls |-> <<data>>]
     ELSE [threw |-> TRUE, tx |-> "", calls |-> <<>>]

(* services/session requestSession: encodes the request call with          *)
(* challengeExpiry = now + 120 and hands it to the bundler                 *)
requestSession(provider, sessionSalt, sessionRequestHash, signedSessionRequestHash, signedSessionHash, sessionExpiry, t, relay) ==
  LET challengeExpiry == t + ChallengeHorizon
      data == RequestCall(sessionSalt, sessionRequestHash, signedSessionRequestHash,
                          signedSessionHash, sessionExpiry, challengeExpiry, provider)
  IN IF relay = "ok" THEN [threw |-> FALSE, tx |-> "0xtx", calls |-> <<data>>]
     ELSE [threw |-> TRUE, tx |-> "", calls |-> <<>>]

(* fault-injected variant: a failed bundler call is swallowed *)
confirmSession_Unsurfaced(provider, sessionRequestHash, sessionHash, signedSessionHash, relay) ==
  LET data == ConfirmCall(sessionRequestHash, sessionHash, signedSessionHash, provider)
  IN IF relay = "ok" THEN [threw |-> FALSE, tx |-> "0xtx", calls |-> <<data>>]
     ELSE [threw |-> FALSE, tx |-> "", calls |-> <<>>]

confirmSession(provider, sessionRequestHash, sessionHash, signedSessionHash, relay) ==
  LET data == ConfirmCall(sessionRequestHash, sessionHash, signedSessionHash, provider)
  IN IF relay = "ok" THEN [threw |-> FALSE, tx |-> "0xtx", calls |-> <<data>>]
     ELSE [threw |-> TRUE, tx |-> "", calls |-> <<>>]

(* services/brevo *)
sendOtpEmail(email, otp, notifier) ==
  [threw |-> notifier # "ok",
   sent |-> <<[channel |-> "email", to |-> email, recipient |-> email, otp |-> otp]>>]

sendOtpSMS(phone, otp, notifier) ==
  [threw |-> notifier # "ok",
   sent |-> <<[channel |-> "sms", to |-> phone, recipient |-> StripPlus(phone), otp |-> otp]>>]

(* ------------------------------------------- POST handlers (request) *)
(* the catch block of the POST handlers of part_003 and part_004 *)
CatchPOST(o, m) ==
  LET e == [o EXCEPT !.err = m]
  IN CASE m \in {ErrKey, ErrConfigUrl} ->
            Response(e, INTERNAL_SERVER_ERROR, INTERNAL_SERVER_ERROR, "Server configuration error")
       [] m = ErrNoCommunity -> Response(e, NOT_FOUND, NOT_FOUND, "Community not found")
       [] m = ErrProvider ->
            Response(e, BAD_REQUEST, BAD_REQUEST, "Invalid provider address in request")
       [] m = ErrSignature -> Response(e, BAD_REQUEST, BAD_REQUEST, ErrSignature)
       [] IncludesInRequestBody(m) -> Response(e, BAD_REQUEST, BAD_REQUEST, m)
       [] OTHER ->
            Response(e, INTERNAL_SERVER_ERROR, INTERNAL_SERVER_ERROR, "Internal Server Error")

(* fault-injected variant: the session hash is computed and signed with no *)
(* challenge in it                                                         *)
SubmitRequest_Unchallenged(o, req, saltSource, challenge, provider, x, t) ==
  LET sessionSalt == generateSessionSalt(saltSource, req.type)
      sessionRequestHash ==
        generateSessionRequestHash(req.provider, req.owner, sessionSalt, req.expiry)
      sessionHash == generateSessionHash(sessionRequestHash, <<>>)
      signedSessionHash == signMessage(ServiceKey, sessionHash)
      sub == requestSession(provider, sessionSalt, sessionRequestHash, req.signature,
                            signedSessionHash, req.expiry, t, x.relay)
      o1 == [o EXCEPT !.trace = @ \o <<"generateSessionHash">>]
      o2 == [o1 EXCEPT !.trace = @ \o <<"signMessage", "bundler.call">>]
  IN IF sub.threw THEN [o2 EXCEPT !.err = ErrRelay]
     ELSE [o2 EXCEPT !.calls = sub.calls, !.tx = sub.tx]

(* steps shared by the POST handlers of part_003 and part_004 once the     *)
(* signature verified: hash the challenge, sign the session hash, submit   *)
(* the request call                                                        *)
SubmitRequest(o, req, saltSource, challenge, provider, x, t) ==
  LET sessionSalt == generateSessionSalt(saltSource, req.type)
      sessionRequestHash ==
        generateSessionRequestHash(req.provider, req.owner, sessionSalt, req.expiry)
      bigIntThrows == challenge[1] = "msg" /\ ~x.bigint
      sessionHash == generateSessionHash(sessionRequestHash, challenge)
      signedSessionHash == signMessage(ServiceKey, sessionHash)
      sub == requestSession(provider, sessionSalt, sessionRequestHash, req.signature,
                            signedSessionHash, req.expiry, t, x.relay)
      o1 == [o EXCEPT !.challenge = challenge, !.trace = @ \o <<"generateSessionHash">>]
      o2 == [o1 EXCEPT !.trace = @ \o <<"signMessage", "bundler.call">>]
  IN IF bigIntThrows THEN [o1 EXCEPT !.err = ErrBigInt]
     ELSE IF sub.threw THEN [o2 EXCEPT !.err = ErrRelay]
     ELSE [o2 EXCEPT !.calls = sub.calls, !.tx = sub.tx]

(* fault-injected variant: the challenge is sent before the request call   *)
(* is handed to the relay                                                  *)
POST_part_004_SendFirst(alias, body, x, env, t) ==
  LET s == sanitizeSessionRequest(body)
      req == s.val
      c == getConfigOfAlias(alias, env.url, x.fetch)
      o0 == [NoOutcome EXCEPT !.trace = <<"req.json", "sanitizeSessionRequest">>]
      o1 == [o0 EXCEPT !.trace = @ \o ConfigTrace(c)]
      o2 == [o1 EXCEPT !.trace = @ \o <<"providerCheck">>]
      v == verifySessionRequest(req.provider, req.owner, req.source, req.type,
                                req.expiry, req.signature)
      o3 == [o2 EXCEPT !.trace = @ \o v.trace]
      o4 == [o3 EXCEPT !.verified = <<v.hash>>,
                       !.trace = @ \o <<"generateSessionSalt", "generateSessionRequestHash">>]
      challenge == IF req.type \in {"email", "sms"} THEN generateSessionChallenge(x.r)
                   ELSE IF req.type = "passkey"
                   THEN generateConnectionMessage(req.owner, req.expiry)
                   ELSE <<>>
      o5 == [o4 EXCEPT !.trace = @ \o
               (IF req.type \in {"email", "sms"} THEN <<"generateSessionChallenge">>
                ELSE IF req.type = "passkey" THEN <<"generateConnectionMessage">>
                ELSE <<>>)]
      mail == sendOtpEmail(req.source, challenge, x.notifier)
      sms == sendOtpSMS(req.source, challenge, x.notifier)
      o6 == IF req.type = "email"
            THEN [o5 EXCEPT !.trace = @ \o <<"sendOtpEmail">>, !.sent = mail.sent]
            ELSE IF req.type = "sms"
            THEN [o5 EXCEPT !.trace = @ \o <<"sendOtpSMS">>, !.sent = sms.sent]
            ELSE o5
      o7 == SubmitRequest(o6, req, req.source, challenge, primarySessionProvider, x, t)
      o8 == IF req.type = "passkey"
            THEN [o7 EXCEPT !.json = [sessionRequestChallengeHash |-> <<challenge>>,
                                      sessionRequestChallengeExpiry |-> <<req.expiry>>]]
            ELSE o7
  IN IF s.err # "" THEN CatchPOST(o0, s.err)
     ELSE IF c.err # "" THEN CatchPOST(o1, c.err)
     ELSE IF ~env.key THEN CatchPOST(o1, ErrKey)
     ELSE IF ~ProviderMatches(req.provider, primarySessionProvider) THEN CatchPOST(o2, ErrProvider)
     ELSE IF v.threw THEN CatchPOST(o3, v.err)
     ELSE IF ~v.ok THEN CatchPOST(o3, ErrSignature)
     ELSE IF challenge = <<>> THEN CatchPOST(o5, ErrChallenge)
     ELSE IF req.type = "email" /\ mail.threw THEN CatchPOST(o6, ErrEmail)
     ELSE IF req.type = "sms" /\ sms.threw THEN CatchPOST(o6, ErrSMS)
     ELSE IF o7.err # "" THEN CatchPOST(o7, o7.err)
     ELSE Response(o8, OK, OK, "")

(* part_004, lines 95-286: the handler with challenge delivery and passkey *)
POST_part_004(alias, body, x, env, t) ==
  LET s == sanitizeSessionRequest(body)
      req == s.val
      c == getConfigOfAlias(alias, env.url, x.fetch)
      o0 == [NoOutcome EXCEPT !.trace = <<"req.json", "sanitizeSessionRequest">>]
      o1 == [o0 EXCEPT !.trace = @ \o ConfigTrace(c)]
      o2 == [o1 EXCEPT !.trace = @ \o <<"providerCheck">>]
      v == verifySessionRequest(req.provider, req.owner, req.source, req.type,
                                req.expiry, req.signature)
      o3 == [o2 EXCEPT !.trace = @ \o v.trace]
      o4 == [o3 EXCEPT !.verified = <<v.hash>>,
                       !.trace = @ \o <<"generateSessionSalt", "generateSessionRequestHash">>]
      challenge == IF req.type \in {"email", "sms"} THEN generateSessionChallenge(x.r)
                   ELSE IF req.type = "passkey"
                   THEN generateConnectionMessage(req.owner, req.expiry)
                   ELSE <<>>
      o5 == [o4 EXCEPT !.trace = @ \o
               (IF req.type \in {"email", "sms"} THEN <<"generateSessionChallenge">>
                ELSE IF req.type = "passkey" THEN <<"generateConnectionMessage">>
                ELSE <<>>)]
      o6 == SubmitRequest(o5, req, req.source, challenge, primarySessionProvider, x, t)
      mail == sendOtpEmail(req.source, challenge, x.notifier)
      sms == sendOtpSMS(req.source, challenge, x.notifier)
      o7 == IF req.type = "email"
            THEN [o6 EXCEPT !.trace = @ \o <<"sendOtpEmail">>, !.sent = mail.sent]
            ELSE IF req.type = "sms"
            THEN [o6 EXCEPT !.trace = @ \o <<"sendOtpSMS">>, !.sent = sms.sent]
            ELSE o6
      o8 == IF req.type = "passkey"
            THEN [o7 EXCEPT !.json = [sessionRequestChallengeHash |-> <<challenge>>,
                                      sessionRequestChallengeExpiry |-> <<req.expiry>>]]
            ELSE o7
  IN IF s.err # "" THEN CatchPOST(o0, s.err)
     ELSE IF c.err # "" THEN CatchPOST(o1, c.err)
     ELSE IF ~env.key THEN CatchPOST(o1, ErrKey)
     ELSE IF ~ProviderMatches(req.provider, primarySessionProvider) THEN CatchPOST(o2, ErrProvider)
     ELSE IF v.threw THEN CatchPOST(o3, v.err)
     ELSE IF ~v.ok THEN CatchPOST(o3, ErrSignature)
     ELSE IF challenge = <<>> THEN CatchPOST(o5, ErrChallenge)
     ELSE IF o6.err # "" THEN CatchPOST(o6, o6.err)
     ELSE IF req.type = "email" /\ mail.threw THEN CatchPOST(o7, ErrEmail)
     ELSE IF req.type = "sms" /\ sms.threw THEN CatchPOST(o7, ErrSMS)
     ELSE Response(o8, OK, OK, "")

(* part_003, lines 28-199: the same handler before delivery was wired in;  *)
(* every type gets a numeric challenge and nothing is sent                 *)
POST_part_003(alias, body, x, env, t) ==
  LET s == sanitizeSessionRequest(body)
      req == s.val
      c == getConfigOfAlias(alias, env.url, x.fetch)
      o0 == [NoOutcome EXCEPT !.trace = <<"req.json", "sanitizeSessionRequest">>]
      o1 == [o0 EXCEPT !.trace = @ \o ConfigTrace(c)]
      o2 == [o1 EXCEPT !.trace = @ \o <<"providerCheck">>]
      v == verifySessionRequest(req.provider, req.owner, req.source, req.type,
                                req.expiry, req.signature)
      o3 == [o2 EXCEPT !.trace = @ \o v.trace]
      o4 == [o3 EXCEPT !.verified = <<v.hash>>,
                       !.trace = @ \o <<"generateSessionSalt", "generateSessionRequestHash",
                                        "generateSessionChallenge">>]
      o5 == SubmitRequest(o4, req, req.source, generateSessionChallenge(x.r),
                          primarySessionProvider, x, t)
  IN IF s.err # "" THEN CatchPOST(o0, s.err)
     ELSE IF c.err # "" THEN CatchPOST(o1, c.err)
     ELSE IF ~env.key THEN CatchPOST(o1, ErrKey)
     ELSE IF ~ProviderMatches(req.provider, primarySessionProvider) THEN CatchPOST(o2, ErrProvider)
     ELSE IF v.threw THEN CatchPOST(o3, v.err)
     ELSE IF ~v.ok THEN CatchPOST(o3, ErrSignature)
     ELSE IF o5.err # "" THEN CatchPOST(o5, o5.err)
     ELSE Response(o5, OK, OK, "")

(* an exception no handler code catches: the framework answers 500 with no *)
(* JSON body of the handler's                                              *)
Unhandled(o, m) == [o EXCEPT !.err = m, !.http = INTERNAL_SERVER_ERROR]

(* NextResponse.json(body) with no init argument answers HTTP 200 *)
HttpDefault == OK

(* app/api/v1/app/[alias]/session/post.ts, lines 28-195: provider address  *)
(* from the environment, body used as received                             *)
POST_post_ts(alias, body, x, env, t) ==
  LET req == body
      o0 == [NoOutcome EXCEPT !.trace = <<"req.json">>]
      o1 == [o0 EXCEPT !.trace = @ \o <<"providerCheck">>]
      source == IF req.type = "email" THEN LowerTrim(req.source) ELSE req.source
      v == verifySessionRequest(req.provider, req.owner, source, req.type,
                                req.expiry, req.signature)
      o2 == [o1 EXCEPT !.trace = @ \o v.trace]
      sessionSalt == generateSessionSalt(req.source, req.type)
      sessionRequestHash ==
        generateSessionRequestHash(req.provider, req.owner, sessionSalt, req.expiry)
      challenge == generateSessionChallenge(x.r)
      sessionHash == generateSessionHash(sessionRequestHash, challenge)
      signedSessionHash == signMessage(ServiceKey, sessionHash)
      o3 == [o2 EXCEPT !.verified = <<v.hash>>, !.challenge = challenge,
                       !.trace = @ \o <<"generateSessionSalt", "generateSessionRequestHash",
                                        "generateSessionChallenge", "generateSessionHash",
                                        "signMessage">>]
      c == getConfigOfAlias(alias, env.url, x.fetch)
      o4 == [o3 EXCEPT !.trace = @ \o ConfigTrace(c)]
      sub == requestSession(env.account, sessionSalt, sessionRequestHash, req.signature,
                            signedSessionHash, req.expiry, t, x.relay)
      o5 == [o4 EXCEPT !.trace = @ \o <<"bundler.call">>]
  IN IF ~env.key
     THEN Response(NoOutcome, INTERNAL_SERVER_ERROR, INTERNAL_SERVER_ERROR,
                   "Internal Server Error")
     ELSE IF env.account = ""
     THEN Response(NoOutcome, HttpDefault, INTERNAL_SERVER_ERROR, "Internal Server Error")
     ELSE IF ~req.present THEN Unhandled(o0, ErrType)
     ELSE IF ~ProviderMatches(req.provider, env.account)
     THEN Response([o1 EXCEPT !.err = ErrProvider], HttpDefault, BAD_REQUEST, "Bad Request")
     ELSE IF req.type = "email" /\ req.source = Undefined THEN Unhandled(o1, ErrType)
     ELSE IF req.owner = Undefined \/ req.owner = "" THEN Unhandled(o2, ErrType)
     ELSE IF v.threw THEN Unhandled(o2, v.err)
     ELSE IF ~v.ok
     THEN Response([o2 EXCEPT !.err = ErrSignature], BAD_REQUEST, BAD_REQUEST, "Bad Request")
     ELSE IF c.err = ErrConfigUrl
     THEN Response([o4 EXCEPT !.err = c.err], INTERNAL_SERVER_ERROR, INTERNAL_SERVER_ERROR,
                   "Server configuration error")
     ELSE IF c.err = ErrNoCommunity
     THEN Response([o4 EXCEPT !.err = c.err], NOT_FOUND, NOT_FOUND, "Community not found")
     ELSE IF c.err # ""
     THEN Response([o4 EXCEPT !.err = c.err], INTERNAL_SERVER_ERROR, INTERNAL_SERVER_ERROR,
                   "Internal Server Error")
     ELSE IF sub.threw
     THEN Response([o5 EXCEPT !.err = ErrRelay], INTERNAL_SERVER_ERROR,
                   INTERNAL_SERVER_ERROR, "Internal Server Error")
     ELSE Response([o5 EXCEPT !.calls = sub.calls, !.tx = sub.tx], OK, OK, "")

(* ------------------------------------------------- SessionStateOracle *)
NoHash == <<>>
NoConfirmBody == [present |-> FALSE, provider |-> Undefined, owner |-> Undefined,
                  sessionRequestHash |-> NoHash, sessionHash |-> NoHash,
                  signedSessionHash |-> NoSignature]

(* what the sessionRequests getter of the ledger contract answers for a    *)
(* key it holds no record for: the zero value of every field               *)
ZeroRecord(provider, srh) ==
  [provider |-> provider, sessionRequestHash |-> srh, sessionExpiry |-> 0,
   challengeExpiry |-> 0, signedSessionHash |-> NoSignature,
   confirmed |-> FALSE, found |-> FALSE]

sessionRequests(led, provider, srh) ==
  IF \E rec \in led : rec.provider = provider /\ rec.sessionRequestHash = srh
  THEN CHOOSE rec \in led : rec.provider = provider /\ rec.sessionRequestHash = srh
  ELSE ZeroRecord(provider, srh)

(* fault-injected variant: the stored signed hash is not compared *)
verifyIncomingSessionRequest_NoCompare(led, provider, sessionRequestHash, sessionHash, t, read) ==
  LET result == sessionRequests(led, provider, sessionRequestHash)
  IN IF read # "ok"
     THEN [ok |-> FALSE, logged |-> ErrFetch, read |-> <<>>,
           trace |-> <<"contract.sessionRequests">>]
     ELSE IF result.sessionExpiry < t
     THEN [ok |-> FALSE, logged |-> ErrSessionExpired, read |-> <<result>>,
           trace |-> <<"contract.sessionRequests">>]
     ELSE IF result.challengeExpiry < t
     THEN [ok |-> FALSE, logged |-> ErrChallengeExpired, read |-> <<result>>,
           trace |-> <<"contract.sessionRequests">>]
     ELSE [ok |-> TRUE, logged |-> "", read |-> <<result>>,
           trace |-> <<"contract.sessionRequests", "signMessage">>]

(* fault-injected variant: the challenge expiry is checked first *)
verifyIncomingSessionRequest_ChallengeFirst(led, provider, sessionRequestHash, sessionHash, t, read) ==
  LET result == sessionRequests(led, provider, sessionRequestHash)
      expiry == result.sessionExpiry
      challengeExpiry == result.challengeExpiry
      storedSignedSessionHash == result.signedSessionHash
      calculatedSignedSessionHash == signMessage(ServiceKey, sessionHash)
  IN IF read # "ok"
     THEN [ok |-> FALSE, logged |-> ErrFetch, read |-> <<>>,
           trace |-> <<"contract.sessionRequests">>]
     ELSE IF ResultLength < 5
     THEN [ok |-> FALSE, logged |-> ErrNotFound, read |-> <<result>>,
           trace |-> <<"contract.sessionRequests">>]
     ELSE IF challengeExpiry < t
     THEN [ok |-> FALSE, logged |-> ErrChallengeExpired, read |-> <<result>>,
           trace |-> <<"contract.sessionRequests">>]
     ELSE IF expiry < t
     THEN [ok |-> FALSE, logged |-> ErrSessionExpired, read |-> <<result>>,
           trace |-> <<"contract.sessionRequests">>]
     ELSE [ok |-> storedSignedSessionHash = calculatedSignedSessionHash,
           logged |-> "", read |-> <<result>>,
           trace |-> <<"contract.sessionRequests", "signMessage">>]

(* services/session verifyIncomingSessionRequest, part_000 lines 159-210:  *)
(* every throw inside is caught, logged and turned into false              *)
verifyIncomingSessionRequest(led, provider, sessionRequestHash, sessionHash, t, read) ==
  LET result == sessionRequests(led, provider, sessionRequestHash)
      expiry == result.sessionExpiry
      challengeExpiry == result.challengeExpiry
      storedSignedSessionHash == result.signedSessionHash
      calculatedSignedSessionHash == signMessage(ServiceKey, sessionHash)
  IN IF read # "ok"
     THEN [ok |-> FALSE, logged |-> ErrFetch, read |-> <<>>,
           trace |-> <<"contract.sessionRequests">>]
     ELSE IF ResultLength < 5
     THEN [ok |-> FALSE, logged |-> ErrNotFound, read |-> <<result>>,
           trace |-> <<"contract.sessionRequests">>]
     ELSE IF expiry < t
     THEN [ok |-> FALSE, logged |-> ErrSessionExpired, read |-> <<result>>,
           trace |-> <<"contract.sessionRequests">>]
     ELSE IF challengeExpiry < t
     THEN [ok |-> FALSE, logged |-> ErrChallengeExpired, read |-> <<result>>,
           trace |-> <<"contract.sessionRequests">>]
     ELSE [ok |-> storedSignedSessionHash = calculatedSignedSessionHash,
           logged |-> "", read |-> <<result>>,
           trace |-> <<"contract.sessionRequests", "signMessage">>]

(* ------------------------------------------ PATCH handlers (confirm) *)
sanitizeSessionConfirm(body) ==
  IF ~body.present THEN ErrBody
  ELSE IF Falsy(body.provider) THEN ErrProviderBody
  ELSE IF Falsy(body.owner) THEN ErrOwnerBody
  ELSE IF body.sessionRequestHash = NoHash THEN "Invalid sessionRequestHash in request body"
  ELSE IF body.sessionHash = NoHash THEN "Invalid sessionHash in request body"
  ELSE IF body.signedSessionHash = NoSignature
  THEN "Invalid signedSessionHash in request body"
  ELSE ""

(* the catch block of the PATCH handler of utils/generateotp.ts *)
CatchPATCH(o, m) ==
  LET e == [o EXCEPT !.err = m]
  IN CASE m \in {ErrKey, ErrConfigUrl} ->
            Response(e, INTERNAL_SERVER_ERROR, INTERNAL_SERVER_ERROR, "Server configuration error")
       [] m = ErrNoCommunity -> Response(e, NOT_FOUND, NOT_FOUND, "Community not found")
       [] m = ErrNotFound -> Response(e, NOT_FOUND, NOT_FOUND, ErrNotFound)
       [] m \in {ErrSessionExpired, ErrChallengeExpired} ->
            Response(e, BAD_REQUEST, BAD_REQUEST, m)
       [] \/ IncludesInRequestBody(m)
          \/ m \in {"Invalid sessionRequestHash in request body",
                    "Invalid sessionHash in request body",
                    "Invalid signedSessionHash in request body"} ->
            Response(e, BAD_REQUEST, BAD_REQUEST, m)
       [] OTHER ->
            Response(e, INTERNAL_SERVER_ERROR, INTERNAL_SERVER_ERROR, "Internal Server Error")

(* fault-injected variant: the ledger is consulted before the owner's      *)
(* signature is verified                                                   *)
PATCH_generateotp_ts_LedgerFirst(alias, body, x, env, t, led) ==
  LET sErr == sanitizeSessionConfirm(body)
      c == getConfigOfAlias(alias, env.url, x.fetch)
      o0 == [NoOutcome EXCEPT !.trace = <<"req.json", "sanitizeSessionConfirm">>]
      o1 == [o0 EXCEPT !.trace = @ \o ConfigTrace(c)]
      o2 == [o1 EXCEPT !.trace = @ \o <<"providerCheck">>]
      inc == verifyIncomingSessionRequest(led, primarySessionProvider,
                                          body.sessionRequestHash, body.sessionHash, t, x.read)
      o3 == [o2 EXCEPT !.trace = @ \o inc.trace, !.read = inc.read,
                       !.logged = inc.logged, !.verified = <<body.sessionHash>>]
      v == verifySessionConfirm(body.owner, body.sessionHash, body.signedSessionHash)
      o4 == [o3 EXCEPT !.trace = @ \o <<"verifyMessage">>]
      sub == confirmSession(primarySessionProvider, body.sessionRequestHash,
                            body.sessionHash, body.signedSessionHash, x.relay)
      o5 == [o4 EXCEPT !.trace = @ \o <<"bundler.call">>]
  IN IF sErr # "" THEN CatchPATCH(o0, sErr)
     ELSE IF c.err # "" THEN CatchPATCH(o1, c.err)
     ELSE IF ~env.key THEN CatchPATCH(o1, ErrKey)
     ELSE IF ~ProviderMatches(body.provider, primarySessionProvider) THEN CatchPATCH(o2, ErrProvider)
     ELSE IF ~inc.ok THEN CatchPATCH(o3, ErrSessionHash)
     ELSE IF v.threw THEN CatchPATCH(o4, ErrRecover)
     ELSE IF ~v.ok THEN CatchPATCH(o4, ErrConfirm)
     ELSE IF sub.threw THEN CatchPATCH(o5, ErrRelay)
     ELSE Response([o5 EXCEPT !.calls = sub.calls, !.tx = sub.tx], OK, OK, "")

(* utils/generateotp.ts, lines 29-170 *)
PATCH_generateotp_ts(alias, body, x, env, t, led) ==
  LET sErr == sanitizeSessionConfirm(body)
      c == getConfigOfAlias(alias, env.url, x.fetch)
      o0 == [NoOutcome EXCEPT !.trace = <<"req.json", "sanitizeSessionConfirm">>]
      o1 == [o0 EXCEPT !.trace = @ \o ConfigTrace(c)]
      o2 == [o1 EXCEPT !.trace = @ \o <<"providerCheck">>]
      v == verifySessionConfirm(body.owner, body.sessionHash, body.signedSessionHash)
      o3 == [o2 EXCEPT !.trace = @ \o <<"verifyMessage">>]
      inc == verifyIncomingSessionRequest(led, primarySessionProvider,
                                          body.sessionRequestHash, body.sessionHash, t, x.read)
      o4 == [o3 EXCEPT !.trace = @ \o inc.trace, !.read = inc.read,
                       !.logged = inc.logged, !.verified = <<body.sessionHash>>]
      sub == confirmSession(primarySessionProvider, body.sessionRequestHash,
                            body.sessionHash, body.signedSessionHash, x.relay)
      o5 == [o4 EXCEPT !.trace = @ \o <<"bundler.call">>]
  IN IF sErr # "" THEN CatchPATCH(o0, sErr)
     ELSE IF c.err # "" THEN CatchPATCH(o1, c.err)
     ELSE IF ~env.key THEN CatchPATCH(o1, ErrKey)
     ELSE IF ~ProviderMatches(body.provider, primarySessionProvider) THEN CatchPATCH(o2, ErrProvider)
     ELSE IF v.threw THEN CatchPATCH(o3, ErrRecover)
     ELSE IF ~v.ok THEN CatchPATCH(o3, ErrConfirm)
     ELSE IF ~inc.ok THEN CatchPATCH(o4, ErrSessionHash)
     ELSE IF sub.threw THEN CatchPATCH(o5, ErrRelay)
     ELSE Response([o5 EXCEPT !.calls = sub.calls, !.tx = sub.tx], OK, OK, "")

(* app/api/v1/app/[alias]/session/patch.ts: lines 23-120 when guarded is   *)
(* FALSE, lines 143-303 (configuration lookup and relay call inside        *)
(* try/catch) when it is TRUE                                              *)
PATCH_patch_ts(guarded, alias, body, x, env, t, led) ==
  LET o0 == [NoOutcome EXCEPT !.trace = <<"req.json">>]
      o1 == [o0 EXCEPT !.trace = @ \o <<"providerCheck">>]
      v == verifySessionConfirm(body.owner, body.sessionHash, body.signedSessionHash)
      o2 == [o1 EXCEPT !.trace = @ \o <<"verifyMessage">>]
      c == getConfigOfAlias(alias, env.url, x.fetch)
      o3 == [o2 EXCEPT !.trace = @ \o ConfigTrace(c)]
      inc == verifyIncomingSessionRequest(led, env.account, body.sessionRequestHash,
                                          body.sessionHash, t, x.read)
      o4 == [o3 EXCEPT !.trace = @ \o inc.trace, !.read = inc.read,
                       !.logged = inc.logged, !.verified = <<body.sessionHash>>]
      sub == confirmSession(env.account, body.sessionRequestHash, body.sessionHash,
                            body.signedSessionHash, x.relay)
      o5 == [o4 EXCEPT !.trace = @ \o <<"bundler.call">>]
      ServerError(o, m) ==
        Response([o EXCEPT !.err = m], INTERNAL_SERVER_ERROR, INTERNAL_SERVER_ERROR,
                 "Internal Server Error")
  IN IF ~env.key \/ env.account = ""
     THEN Response(NoOutcome, INTERNAL_SERVER_ERROR, INTERNAL_SERVER_ERROR,
                   "Internal Server Error")
     ELSE IF ~body.present THEN Unhandled(o0, ErrType)
     ELSE IF ~ProviderMatches(body.provider, env.account)
     THEN Response([o1 EXCEPT !.err = ErrProvider], HttpDefault, BAD_REQUEST, "Bad Request")
     ELSE IF v.threw THEN Unhandled(o2, ErrRecover)
     ELSE IF ~v.ok
     THEN Response([o2 EXCEPT !.err = ErrConfirm], BAD_REQUEST, BAD_REQUEST, "Bad Request")
     ELSE IF c.err # "" /\ ~guarded THEN Unhandled(o3, c.err)
     ELSE IF c.err = ErrConfigUrl
     THEN Response([o3 EXCEPT !.err = c.err], INTERNAL_SERVER_ERROR, INTERNAL_SERVER_ERROR,
                   "Server configuration error")
     ELSE IF c.err = ErrNoCommunity
     THEN Response([o3 EXCEPT !.err = c.err], NOT_FOUND, NOT_FOUND, "Community not found")
     ELSE IF c.err # "" THEN ServerError(o3, c.err)
     ELSE IF ~inc.ok
     THEN Response([o4 EXCEPT !.err = ErrSessionHash], BAD_REQUEST, BAD_REQUEST, "Bad Request")
     ELSE IF sub.threw /\ ~guarded THEN Unhandled(o5, ErrRelay)
     ELSE IF sub.threw THEN ServerError(o5, ErrRelay)
     ELSE Response([o5 EXCEPT !.calls = sub.calls, !.tx = sub.tx], OK, OK, "")

(* ------------------------------------------------------ ledger contract *)
(* The session manager contract the relay submits to.  A request call      *)
(* writes the record of its (provider, sessionRequestHash); a confirm call *)
(* moves the record to Confirmed; a Confirmed record is never rewritten.   *)
SameKey(rec, call) ==
  rec.provider = call.provider /\ rec.sessionRequestHash = call.sessionRequestHash

LedgerApply(led, call) ==
  LET old == {rec \in led : SameKey(rec, call)}
      confirmedAlready == \E rec \in old : rec.confirmed
  IN IF call.fn = "request"
     THEN IF confirmedAlready THEN led
          ELSE (led \ old) \cup
               {[provider |-> call.provider,
                 sessionRequestHash |-> call.sessionRequestHash,
                 sessionExpiry |-> call.sessionExpiry,
                 challengeExpiry |-> call.challengeExpiry,
                 signedSessionHash |-> call.signedSessionHash,
                 confirmed |-> FALSE, found |-> TRUE]}
     ELSE (led \ old) \cup {[rec EXCEPT !.confirmed = TRUE] : rec \in old}

LedgerApplyAll(led, calls) ==
  IF calls = <<>> THEN led ELSE LedgerApply(led, calls[1])

(* ------------------------------------------------------ rate-limit store *)
(* services/db/session_request.ts: the count of the rows of a (salt, alias) *)
(* created in the last 30 seconds; a failed query counts as none            *)
RecentWindow == 10 * 60        \* getRecentSessionRequestCount: Date.now() - 10 * 60 * 1000
DailyWindow == 24 * 60 * 60    \* getDailySessionRequestCount: Date.now() - 24 * 60 * 60 * 1000

(* the rows of a (salt, alias) created at or after the given time; the     *)
(* query answers their count, or no row at all when there is none          *)
RowsSince(rows, salt, alias, since) ==
  { i \in 1..Len(rows) :
      /\ rows[i].salt = salt
      /\ rows[i].alias = alias
      /\ rows[i].created_at >= since }

(* if (error) return 0; return data?.count ?? 0 *)
getRecentSessionRequestCount(rows, salt, alias, t, error) ==
  IF error THEN 0
  ELSE IF RowsSince(rows, salt, alias, t - RecentWindow) = {} THEN 0
  ELSE Cardinality(RowsSince(rows, salt, alias, t - RecentWindow))

getDailySessionRequestCount(rows, salt, alias, t, error) ==
  IF error THEN 0
  ELSE IF RowsSince(rows, salt, alias, t - DailyWindow) = {} THEN 0
  ELSE Cardinality(RowsSince(rows, salt, alias, t - DailyWindow))

(* fault-injected variant: a failed query counts as one more than every row *)
getImmediateSessionRequestCount_FailClosed(rows, salt, alias, t, error) ==
  IF error THEN Len(rows) + 1
  ELSE Cardinality({ i \in 1..Len(rows) :
                       /\ rows[i].salt = salt
                       /\ rows[i].alias = alias
                       /\ rows[i].created_at >= t - ImmediateWindow })

getImmediateSessionRequestCount(rows, salt, alias, t, error) ==
  IF error THEN 0
  ELSE Cardinality({ i \in 1..Len(rows) :
                       /\ rows[i].salt = salt
                       /\ rows[i].alias = alias
                       /\ rows[i].created_at >= t - ImmediateWindow })

(* ---------------------------------------------------------------- state *)
(* now      Date.now() in whole seconds                                    *)
(* ticks    clock advances so far                                          *)
(* env      process.env of the deployment                                  *)
(* intent   the community, identity and session lifetime the wallet owner  *)
(*          asks for                                                       *)
(* ledger   the records of the session manager contract                    *)
(* requests request calls the relay has delivered                          *)
(* issued   salt, alias and time of each of them, in order (the handlers   *)
(*          keep no such history; the properties refer to it)              *)
(* last     the invocation whose response is on its way to the caller      *)
(* inflight the confirm invocations suspended at an await, each with the   *)
(*          locals of its own call frame                                   *)
(* store    the session_request table and the answer of the last count     *)
(*          query on it                                                    *)
VARIABLES now, ticks, env, intent, ledger, requests, issued, last, inflight, store
vars == <<now, ticks, env, intent, ledger, requests, issued, last, inflight, store>>

Idle == [op |-> "none", handler |-> "", alias |-> "", body |-> NoBody, x |-> <<>>,
         at |-> 0, out |-> NoOutcome]

(* no row in the table, no query answered yet; an answer is kept with the  *)
(* table (of) and the time (at) it was asked of                            *)
NoCount == [fn |-> "", salt |-> <<>>, alias |-> "", at |-> 0, of |-> <<>>, error |-> FALSE, count |-> 0]
EmptyStore == [rows |-> <<>>, counted |-> NoCount]

(* the call frames of the confirm invocations that may be in flight at once *)
Slots == {1, 2}
NoFlight == [pc |-> "idle", alias |-> "", body |-> NoConfirmBody, x |-> <<>>,
             at |-> 0, seen |-> <<>>]

EnvOk == [key |-> TRUE, account |-> ConfiguredProvider, url |-> TRUE]
Envs ==
  { EnvOk, [EnvOk EXCEPT !.key = FALSE], [EnvOk EXCEPT !.account = ""],
    [EnvOk EXCEPT !.url = FALSE] }

Intent(source, type, offset) ==
  [alias |-> BundledAlias, source |-> source, type |-> type, offset |-> offset]
BaseIntent == Intent("u@x.io", "email", 300)
Intents ==
  { Intent("u@x.io", "email", d) : d \in ExpiryOffsets }
  \cup { Intent(" U@X.io ", "email", 300), Intent("+3247", "sms", 300),
         Intent("pk1", "passkey", 300), [BaseIntent EXCEPT !.alias = ListedAlias] }

Init ==
  /\ now = T0
  /\ ticks = 0
  /\ \/ env = EnvOk /\ intent \in Intents
     \/ env \in Envs /\ intent = BaseIntent
  /\ ledger = {}
  /\ requests = 0
  /\ issued = <<>>
  /\ last = Idle
  /\ inflight = [s \in Slots |-> NoFlight]
  /\ store = EmptyStore

(* ---------------------------------------------------------------- inputs *)
X0 == [fetch |-> "ok", relay |-> "ok", notifier |-> "ok", r |-> 0,
       bigint |-> FALSE, read |-> "ok"]
Externals ==
  { X0, [X0 EXCEPT !.relay = "fail"], [X0 EXCEPT !.notifier = "fail"],
    [X0 EXCEPT !.bigint = TRUE] } \cup { [X0 EXCEPT !.r = r] : r \in RandomSamples }
ConfirmExternals == { X0, [X0 EXCEPT !.relay = "fail"], [X0 EXCEPT !.read = "fail"] }
FetchFail == [X0 EXCEPT !.fetch = "fail"]
Aliases == {BundledAlias, ListedAlias, UnknownAlias}

Normalized(source, type) == IF type = "email" THEN LowerTrim(source) ELSE source

RequestBody(provider, in, expiry, signature) ==
  [present |-> TRUE, provider |-> provider, owner |-> OwnerAddress,
   source |-> in.source, type |-> in.type, expiry |-> expiry, signature |-> signature]

(* the hash a wallet signs for its request: over the normalized source *)
WalletHash(provider, in, expiry) ==
  generateSessionRequestHash(provider, OwnerAddress,
    generateSessionSalt(Normalized(in.source, in.type), in.type), expiry)

(* the same over the source as typed *)
TypedHash(provider, in, expiry) ==
  generateSessionRequestHash(provider, OwnerAddress,
    generateSessionSalt(in.source, in.type), expiry)

(* the body the owner's wallet sends *)
GoodBody(in, t) ==
  RequestBody(ConfiguredProvider, in, t + in.offset,
              signMessage(OwnerKey, WalletHash(ConfiguredProvider, in, t + in.offset)))

RejectedBodies(in, t) ==
  { RequestBody(ConfiguredProvider, in, t + in.offset, sig) :
      sig \in { signMessage(OtherKey, WalletHash(ConfiguredProvider, in, t + in.offset)),
                signMessage(OwnerKey, TypedHash(ConfiguredProvider, in, t + in.offset)),
                signMessage(OwnerKey, WalletHash(ConfiguredProvider, in, t + in.offset + 1)),
                Malformed } \ {GoodBody(in, t).signature} }
  \cup { RequestBody(OtherProvider, in, t + in.offset, sig) :
      sig \in { signMessage(OwnerKey, WalletHash(OtherProvider, in, t + in.offset)),
                signMessage(OwnerKey, WalletHash(ConfiguredProvider, in, t + in.offset)),
                Malformed } }

(* the owner's body with the owner address spelled in lower case: the same *)
(* 20 bytes, so the same hash and the same signature                      *)
LowerCaseOwnerBody(in, t) == [GoodBody(in, t) EXCEPT !.owner = LowerCase(OwnerAddress)]

(* bodies the ABI encoder has no encoding for: an expiry below the uint48   *)
(* range, an owner or a provider that is no address                        *)
UnencodableBodies(in, t) ==
  { RequestBody(ConfiguredProvider, in, 0 - (t + in.offset),
                signMessage(OwnerKey, WalletHash(ConfiguredProvider, in, 0 - (t + in.offset)))),
    [GoodBody(in, t) EXCEPT !.owner = BadAddress],
    [GoodBody(in, t) EXCEPT !.provider = BadAddress] }

MalformedBodies(in, t) ==
  { NoBody,
    [GoodBody(in, t) EXCEPT !.provider = Undefined], [GoodBody(in, t) EXCEPT !.provider = ""],
    [GoodBody(in, t) EXCEPT !.owner = Undefined], [GoodBody(in, t) EXCEPT !.source = Undefined],
    [GoodBody(in, t) EXCEPT !.type = "fax"], [GoodBody(in, t) EXCEPT !.expiry = 0],
    [GoodBody(in, t) EXCEPT !.signature = NoSignature] }

RequestInputs(in, t) ==
  { <<in.alias, GoodBody(in, t), x>> : x \in Externals }
  \cup { <<in.alias, b, X0>> : b \in RejectedBodies(in, t) \cup MalformedBodies(in, t) }
  \cup { <<UnknownAlias, GoodBody(in, t), X0>>, <<UnknownAlias, GoodBody(in, t), FetchFail>>,
         <<ListedAlias, GoodBody(in, t), FetchFail>> }
  \cup { <<ListedAlias, b, X0>> : b \in RejectedBodies(in, t) }
  \cup { <<in.alias, LowerCaseOwnerBody(in, t), X0>> }
  \cup { <<in.alias, b, X0>> : b \in UnencodableBodies(in, t) }

(* a session request hash no request of the model ever produces *)
AbsentRequestHash ==
  generateSessionRequestHash(ConfiguredProvider, OwnerAddress,
                             generateSessionSalt("ghost@x.io", "email"), 1)

ConfirmBody(provider, srh, sessionHash, signature) ==
  [present |-> TRUE, provider |-> provider, owner |-> OwnerAddress,
   sessionRequestHash |-> srh, sessionHash |-> sessionHash,
   signedSessionHash |-> signature]

ChallengeChoices(srh) ==
  { generateSessionChallenge(r) : r \in RandomSamples }
  \cup (IF srh[4][3] = "passkey"
        THEN {generateConnectionMessage(OwnerAddress, srh[5])} ELSE {})

KnownRequestHashes(led) == { rec.sessionRequestHash : rec \in led } \cup {AbsentRequestHash}

(* confirmations the owner signed, citing the configured provider *)
GoodConfirms(led) ==
  UNION { { ConfirmBody(ConfiguredProvider, srh, generateSessionHash(srh, ch),
                        signMessage(OwnerKey, generateSessionHash(srh, ch))) :
              ch \in ChallengeChoices(srh) } : srh \in KnownRequestHashes(led) }

RejectedConfirms(led) ==
  UNION { { [b EXCEPT !.signedSessionHash = signMessage(OtherKey, b.sessionHash)],
            [b EXCEPT !.signedSessionHash = Malformed],
            [b EXCEPT !.signedSessionHash = signMessage(OwnerKey, b.sessionRequestHash)],
            [b EXCEPT !.provider = OtherProvider] } :
          b \in { g \in GoodConfirms(led) : g.sessionHash[3] = generateSessionChallenge(0) } }

(* confirmations of the owner with the owner address spelled in lower case *)
LowerCaseOwnerConfirms(led) ==
  { [b EXCEPT !.owner = LowerCase(OwnerAddress)] :
      b \in { g \in GoodConfirms(led) : g.sessionHash[3] = generateSessionChallenge(0) } }

BaseConfirm ==
  ConfirmBody(ConfiguredProvider, AbsentRequestHash,
              generateSessionHash(AbsentRequestHash, generateSessionChallenge(0)),
              signMessage(OwnerKey,
                generateSessionHash(AbsentRequestHash, generateSessionChallenge(0))))

MalformedConfirms ==
  { NoConfirmBody,
    [BaseConfirm EXCEPT !.provider = Undefined], [BaseConfirm EXCEPT !.owner = ""],
    [BaseConfirm EXCEPT !.sessionRequestHash = NoHash],
    [BaseConfirm EXCEPT !.sessionHash = NoHash],
    [BaseConfirm EXCEPT !.signedSessionHash = NoSignature] }

ConfirmInputs(led) ==
  { <<BundledAlias, b, x>> : b \in GoodConfirms(led), x \in ConfirmExternals }
  \cup { <<BundledAlias, b, X0>> : b \in RejectedConfirms(led) \cup MalformedConfirms }
  \cup { <<a, BaseConfirm, x>> : a \in Aliases \ {BundledAlias}, x \in {X0, FetchFail} }
  \cup { <<ListedAlias, b, X0>> :
           b \in { c \in RejectedConfirms(led) : c.sessionRequestHash = AbsentRequestHash } }
  \cup { <<BundledAlias, b, X0>> : b \in LowerCaseOwnerConfirms(led) }

(* --------------------------------------------------------------- actions *)
(* one invocation of a handler: the handler runs to its response, and the  *)
(* call it handed to the relay, if any, reaches the ledger                 *)
Invoke(op, handler, in, out) ==
  /\ requests + (IF op = "request" THEN Len(out.calls) ELSE 0) <= MaxRequests
  /\ ledger' = LedgerApplyAll(ledger, out.calls)
  /\ requests' = requests + (IF op = "request" THEN Len(out.calls) ELSE 0)
  /\ issued' = IF op = "request" /\ out.calls # <<>>
               THEN Append(issued, [salt |-> out.calls[1].salt, alias |-> in[1],
                                    created_at |-> now])
               ELSE issued
  /\ last' = [op |-> op, handler |-> handler, alias |-> in[1], body |-> in[2],
              x |-> in[3], at |-> now, out |-> out]
  /\ UNCHANGED <<now, ticks, env, intent, inflight, store>>

RequestPart004 ==
  /\ last.op = "none"
  /\ \E in \in RequestInputs(intent, now) :
       Invoke("request", "part_004", in, POST_part_004(in[1], in[2], in[3], env, now))

RequestPart003 ==
  /\ last.op = "none"
  /\ \E in \in RequestInputs(intent, now) :
       Invoke("request", "part_003", in, POST_part_003(in[1], in[2], in[3], env, now))

RequestPostTs ==
  /\ last.op = "none"
  /\ \E in \in RequestInputs(intent, now) :
       Invoke("request", "post.ts", in, POST_post_ts(in[1], in[2], in[3], env, now))

ConfirmGenerateOtpTs ==
  /\ last.op = "none"
  /\ \E in \in ConfirmInputs(ledger) :
       Invoke("confirm", "generateotp.ts", in,
              PATCH_generateotp_ts(in[1], in[2], in[3], env, now, ledger))

ConfirmPatchTs ==
  /\ last.op = "none"
  /\ \E in \in ConfirmInputs(ledger), guarded \in BOOLEAN :
       Invoke("confirm", IF guarded THEN "patch.ts:143" ELSE "patch.ts:23", in,
              PATCH_patch_ts(guarded, in[1], in[2], in[3], env, now, ledger))

(* the response reaches the caller and the invocation is over *)
Respond ==
  /\ last.op # "none"
  /\ last' = Idle
  /\ UNCHANGED <<now, ticks, env, intent, ledger, requests, issued, inflight, store>>

(* the clock advances *)
Tick ==
  /\ last.op = "none"
  /\ ticks < MaxTicks
  /\ \E d \in TickSteps : now' = now + d
  /\ ticks' = ticks + 1
  /\ UNCHANGED <<env, intent, ledger, requests, issued, last, inflight, store>>

Next ==
  \/ RequestPart004
  \/ RequestPart003
  \/ RequestPostTs
  \/ ConfirmGenerateOtpTs
  \/ ConfirmPatchTs
  \/ Respond
  \/ Tick

Spec == Init /\ [][Next]_vars

(* ------------------------------------------- interleaved invocations *)
(* The confirm handler of utils/generateotp.ts suspends at its awaits: the *)
(* ledger read of verifyIncomingSessionRequest and the relay call of       *)
(* confirmSession.  Between them other invocations run.  Each invocation   *)
(* keeps what it was called with and what it read in its own frame.        *)
ConcInputs(led) ==
  { <<BundledAlias, b, X0>> :
      b \in { g \in GoodConfirms(led) : g.sessionHash[3] = generateSessionChallenge(0) } }
  \cup { <<BundledAlias, BaseConfirm, x>> : x \in ConfirmExternals }
  \cup { <<BundledAlias, NoConfirmBody, X0>> }

(* fault-injected variant: the record read is kept in a module-level memo  *)
(* that later invocations for the same key are served from                 *)
Observed_Memoized(fl, s, led) ==
  LET others == { u \in Slots \ {s} :
                    /\ fl[u].pc = "submit"
                    /\ fl[u].seen # <<>>
                    /\ fl[u].body.sessionRequestHash = fl[s].body.sessionRequestHash }
  IN IF fl[s].x.read # "ok" THEN <<>>
     ELSE IF others # {} THEN fl[CHOOSE u \in others : TRUE].seen
     ELSE <<sessionRequests(led, primarySessionProvider, fl[s].body.sessionRequestHash)>>

(* what the ledger read of invocation s returns: the record the ledger     *)
(* holds at that moment, or nothing when the read fails                    *)
Observed(fl, s, led) ==
  IF fl[s].x.read # "ok" THEN <<>>
  ELSE <<sessionRequests(led, primarySessionProvider, fl[s].body.sessionRequestHash)>>

(* the ledger as an invocation that read `seen` knows it *)
AsLedger(seen) == { rec \in { seen[i] : i \in 1..Len(seen) } : rec.found }

(* the handler got as far as verifyIncomingSessionRequest *)
ReachedRead(o) == o.verified # <<>>

(* a request runs to its response while confirms are in flight *)
RequestConc ==
  /\ last.op = "none"
  /\ Invoke("request", "part_004", <<intent.alias, GoodBody(intent, now), X0>>,
            POST_part_004(intent.alias, GoodBody(intent, now), X0, env, now))

(* a confirm that fails before it reads the ledger answers at once *)
ConfirmRejectEarly ==
  /\ last.op = "none"
  /\ \E in \in ConcInputs(ledger) :
       LET pre == PATCH_generateotp_ts(in[1], in[2], in[3], env, now, {})
       IN /\ ~ReachedRead(pre)
          /\ last' = [op |-> "confirm", handler |-> "generateotp.ts", alias |-> in[1],
                      body |-> in[2], x |-> in[3], at |-> now, out |-> pre]
  /\ UNCHANGED <<now, ticks, env, intent, ledger, requests, issued, inflight, store>>

(* a confirm passes its checks and suspends at the ledger read; it takes   *)
(* the lowest free frame                                                   *)
ConfirmBegin(s) ==
  /\ inflight[s].pc = "idle"
  /\ \A u \in Slots : u < s => inflight[u].pc # "idle"
  /\ \E in \in ConcInputs(ledger) :
       LET pre == PATCH_generateotp_ts(in[1], in[2], in[3], env, now, {})
       IN /\ ReachedRead(pre)
          /\ inflight' = [inflight EXCEPT ![s] =
                           [pc |-> "read", alias |-> in[1], body |-> in[2], x |-> in[3],
                            at |-> 0, seen |-> <<>>]]
  /\ UNCHANGED <<now, ticks, env, intent, ledger, requests, issued, last, store>>

(* the read returns; the clock is read right after it *)
ConfirmRead(s) ==
  /\ inflight[s].pc = "read"
  /\ inflight' = [inflight EXCEPT ![s].pc = "submit", ![s].at = now,
                                  ![s].seen = Observed(inflight, s, ledger)]
  /\ UNCHANGED <<now, ticks, env, intent, ledger, requests, issued, last, store>>

(* the rest of the handler: the comparison with what was read, the confirm *)
(* call and the response                                                   *)
ConfirmFinish(s) ==
  /\ inflight[s].pc = "submit"
  /\ last.op = "none"
  /\ LET f == inflight[s]
         out == PATCH_generateotp_ts(f.alias, f.body, f.x, env, f.at, AsLedger(f.seen))
     IN /\ ledger' = LedgerApplyAll(ledger, out.calls)
        /\ last' = [op |-> "confirm", handler |-> "generateotp.ts", alias |-> f.alias,
                    body |-> f.body, x |-> f.x, at |-> f.at, out |-> out]
  /\ inflight' = [inflight EXCEPT ![s] = NoFlight]
  /\ UNCHANGED <<now, ticks, env, intent, requests, issued, store>>

InitConc == Init /\ env = EnvOk /\ intent = BaseIntent

NextConc ==
  \/ RequestConc
  \/ ConfirmRejectEarly
  \/ \E s \in Slots : ConfirmBegin(s)
  \/ \E s \in Slots : ConfirmRead(s)
  \/ \E s \in Slots : ConfirmFinish(s)
  \/ Respond
  \/ Tick

SpecConc == InitConc /\ [][NextConc]_vars

(* ------------------------------------------------- rate-limit store *)
(* services/db/session_request.ts on its own: rows are inserted, the three *)
(* count queries are asked, each of them answering or failing, and time    *)
(* passes across the three windows                                         *)
StoreSalts == { generateSessionSalt("u@x.io", "email"), generateSessionSalt("+3247", "sms") }
StoreAliases == {BundledAlias, ListedAlias}
WindowSteps == {ImmediateWindow, ImmediateWindow + 1, RecentWindow + 1, DailyWindow + 1}
CountQueries ==
  {"getRecentSessionRequestCount", "getDailySessionRequestCount",
   "getImmediateSessionRequestCount"}

createSessionRequest(rows, salt, alias, t) ==
  Append(rows, [salt |-> salt, alias |-> alias, created_at |-> t])

Count(fn, rows, salt, alias, t, error) ==
  CASE fn = "getRecentSessionRequestCount" ->
         getRecentSessionRequestCount(rows, salt, alias, t, error)
    [] fn = "getDailySessionRequestCount" ->
         getDailySessionRequestCount(rows, salt, alias, t, error)
    [] OTHER -> getImmediateSessionRequestCount(rows, salt, alias, t, error)

CreateSessionRequest ==
  /\ Len(store.rows) < MaxRequests
  /\ \E salt \in StoreSalts, alias \in StoreAliases :
       store' = [store EXCEPT !.rows = createSessionRequest(store.rows, salt, alias, now)]
  /\ UNCHANGED <<now, ticks, env, intent, ledger, requests, issued, last, inflight>>

CountQuery ==
  /\ \E fn \in CountQueries, salt \in StoreSalts, alias \in StoreAliases, error \in BOOLEAN :
       store' = [store EXCEPT !.counted =
                   [fn |-> fn, salt |-> salt, alias |-> alias, at |-> now, of |-> store.rows,
                    error |-> error,
                    count |-> Count(fn, store.rows, salt, alias, now, error)]]
  /\ UNCHANGED <<now, ticks, env, intent, ledger, requests, issued, last, inflight>>

WindowTick ==
  /\ ticks < MaxTicks
  /\ \E d \in WindowSteps : now' = now + d
  /\ ticks' = ticks + 1
  /\ UNCHANGED <<env, intent, ledger, requests, issued, last, inflight, store>>

InitStore == Init /\ env = EnvOk /\ intent = BaseIntent

NextStore ==
  \/ CreateSessionRequest
  \/ CountQuery
  \/ WindowTick

SpecStore == InitStore /\ [][NextStore]_vars

(* ================================================================ claims *)
Events(trace) == { trace[i] : i \in 1..Len(trace) }
Precedes(trace, a, b) ==
  \A i, j \in 1..Len(trace) : (trace[i] = a /\ trace[j] = b) => i < j

HashEvents ==
  {"generateSessionSalt", "generateSessionRequestHash", "generateSessionHash",
   "verifyMessage", "signMessage"}
StateEvents == {"contract.sessionRequests", "bundler.call", "sendOtpEmail", "sendOtpSMS"}
ExternalEvents == StateEvents \cup {"fetch"}
ValidationErrors ==
  {ErrBody, ErrProviderBody, ErrOwnerBody, ErrSourceBody, ErrTypeBody, ErrExpiryBody,
   ErrSignatureBody, "Invalid sessionRequestHash in request body",
   "Invalid sessionHash in request body", "Invalid signedSessionHash in request body"}

(* the provider address the handler of the last invocation is configured with *)
ConfiguredFor(handler) ==
  IF handler \in {"post.ts", "patch.ts:23", "patch.ts:143"} THEN env.account
  ELSE primarySessionProvider

Submitted(fn) == last.out.calls # <<>> /\ last.out.calls[1].fn = fn
KeyOfOwner(a) == IF AddressBytes(a) = "0xO1" THEN OwnerKey ELSE OtherKey

(* C1: a confirm call reaches the relay only if, in that invocation, the   *)
(* supplied provider is the configured one, the owner signed sessionHash,  *)
(* the ledger holds a record for (provider, sessionRequestHash) neither of *)
(* whose expiries lies before the verification time, and the service's     *)
(* signature over the supplied sessionHash is the record's stored one.     *)
C1_ConfirmOnlyAfterAllChecks ==
  (last.op = "confirm" /\ Submitted("confirm")) =>
    /\ last.body.provider = ConfiguredFor(last.handler)
    /\ last.body.signedSessionHash =
         signMessage(KeyOfOwner(last.body.owner), last.body.sessionHash)
    /\ \E rec \in ledger :
         /\ rec.provider = last.body.provider
         /\ rec.sessionRequestHash = last.body.sessionRequestHash
         /\ rec.sessionExpiry >= last.at
         /\ rec.challengeExpiry >= last.at
         /\ rec.signedSessionHash = signMessage(ServiceKey, last.body.sessionHash)

C1_Witness ==
  /\ last.op = "confirm"
  /\ Submitted("confirm")
  /\ last.out.tx # ""

(* the last invocation is a confirm for a recorded request whose supplied  *)
(* sessionHash binds another challenge than the one the service issued     *)
WrongChallenge ==
  /\ last.op = "confirm"
  /\ last.body.present
  /\ last.body.sessionHash # NoHash
  /\ last.body.sessionRequestHash # NoHash
  /\ last.body.sessionHash[2] = last.body.sessionRequestHash
  /\ \E rec \in ledger :
       /\ rec.provider = ConfiguredFor(last.handler)
       /\ rec.sessionRequestHash = last.body.sessionRequestHash
       /\ rec.signedSessionHash # signMessage(ServiceKey, last.body.sessionHash)

OwnerSignedConfirm ==
  /\ last.body.provider = ConfiguredFor(last.handler)
  /\ last.body.signedSessionHash = signMessage(OwnerKey, last.body.sessionHash)
  /\ last.body.owner = OwnerAddress

(* C2: a confirm whose sessionHash was derived from a different challenge  *)
(* than the issued one submits no confirm call and returns no transaction  *)
(* id; when the owner's signature over that hash is valid and the ledger   *)
(* answers, the failure is the session-hash mismatch.                      *)
C2_HashMismatchRejected ==
  WrongChallenge =>
    /\ last.out.calls = <<>>
    /\ last.out.tx = ""
    /\ last.out.http # OK \/ last.out.status # OK
    /\ (OwnerSignedConfirm /\ env = EnvOk /\ last.alias = BundledAlias
          /\ last.x.read = "ok") => last.out.err = ErrSessionHash

C2_Witness ==
  /\ WrongChallenge
  /\ OwnerSignedConfirm
  /\ last.out.err = ErrSessionHash
  /\ last.out.logged = ""
  /\ last.out.read # <<>>
  /\ last.out.read[1].found

(* C3: confirmation is accepted only while both expiries of the record are *)
(* strictly greater than the verification time.                            *)
C3_StrictExpiry ==
  (last.op = "confirm" /\ Submitted("confirm")) =>
    /\ last.out.read[1].sessionExpiry > last.at
    /\ last.out.read[1].challengeExpiry > last.at

(* C4: once the record is Confirmed, a repeated confirm submits no second  *)
(* confirm call to the relay.                                              *)
C4_NoSecondConfirm ==
  (last.op = "confirm" /\ last.out.read # <<>> /\ last.out.read[1].confirmed) =>
    last.out.calls = <<>>

(* C5: a request call reaches the relay only if the supplied provider is   *)
(* the configured one and ownerSignature is the owner's signature over     *)
(* deriveSessionRequestHash(provider, owner, deriveSalt(source, type),     *)
(* expiry) of the normalized source.                                       *)
C5_RequestOnlyAfterChecks ==
  (last.op = "request" /\ Submitted("request")) =>
    /\ last.body.provider = ConfiguredFor(last.handler)
    /\ last.body.signature =
         signMessage(KeyOfOwner(last.body.owner),
           <<"srh", last.body.provider, last.body.owner,
             <<"salt", Normalized(last.body.source, last.body.type), last.body.type>>,
             last.body.expiry>>)

C5_Witness ==
  /\ last.op = "request"
  /\ Submitted("request")
  /\ last.out.tx # ""

(* C6: the salt and sessionRequestHash of every submitted request call are *)
(* derived from the normalized source, so the submitted hash is the hash   *)
(* the owner's signature was verified over.                                *)
C6_SubmittedHashIsVerifiedHash ==
  (last.op = "request" /\ Submitted("request")) =>
    /\ last.out.calls[1].salt =
         <<"salt", Normalized(last.body.source, last.body.type), last.body.type>>
    /\ last.out.calls[1].sessionRequestHash = last.out.verified[1]

(* C7: a notifier failure after the relay submission does not fail the     *)
(* request: the transaction id is still returned.                          *)
C7_DeliveryFailureTolerated ==
  (last.op = "request" /\ Submitted("request") /\ last.out.sent # <<>>
     /\ last.x.notifier = "fail") =>
    (last.out.tx # "" /\ last.out.http = OK /\ last.out.status = OK)

(* C8 as stated: validation, provider-mismatch and signature failures are  *)
(* returned with no external call (configuration fetch included) made in   *)
(* the invocation, and checks run provider, then signature, then state.    *)
C8_NoExternalCallBeforeRejection ==
  (last.op # "none" /\ last.out.err \in ValidationErrors \cup {ErrProvider, ErrSignature, ErrConfirm})
    => Events(last.out.trace) \cap ExternalEvents = {}

(* C8 amended: validation failures are returned before any external call;  *)
(* provider-mismatch and signature failures are returned before any ledger *)
(* read, relay submission or notifier call (the configuration lookup that  *)
(* supplies the provider address may precede them); the provider check     *)
(* precedes signature recovery, which precedes every ledger read, relay    *)
(* submission and notifier call.                                           *)
C8_FailFastOrder ==
  last.op # "none" =>
    /\ last.out.err \in ValidationErrors =>
         Events(last.out.trace) \cap ExternalEvents = {}
    /\ last.out.err \in {ErrProvider, ErrSignature, ErrConfirm, ErrRecover} =>
         Events(last.out.trace) \cap StateEvents = {}
    /\ Precedes(last.out.trace, "providerCheck", "verifyMessage")
    /\ \A e \in StateEvents : Precedes(last.out.trace, "verifyMessage", e)

C8_Witness ==
  /\ last.op # "none"
  /\ last.out.err \in {ErrSignature, ErrConfirm}
  /\ "fetch" \in Events(last.out.trace)

WellFormedRequest(b) ==
  /\ b.present
  /\ ~Falsy(b.provider) /\ ~Falsy(b.owner) /\ ~Falsy(b.source)
  /\ b.type \in SourceTypes /\ b.expiry # 0 /\ b.signature # NoSignature

(* C9: a request citing another provider than the configured one performs  *)
(* no hash derivation and no signature recovery, and, the body being well  *)
(* formed and the configuration available, fails with the invalid-provider *)
(* error.                                                                  *)
C9_ProviderMismatchBeforeHashing ==
  (last.op = "request" /\ last.body.present
     /\ last.body.provider # ConfiguredFor(last.handler)) =>
    /\ Events(last.out.trace) \cap HashEvents = {}
    /\ last.out.calls = <<>>
    /\ (WellFormedRequest(last.body) /\ env = EnvOk /\ last.alias # UnknownAlias
          /\ last.x.fetch = "ok") =>
         (last.out.err = ErrProvider /\ last.out.status = BAD_REQUEST)

C9_Witness ==
  /\ last.op = "request"
  /\ WellFormedRequest(last.body)
  /\ last.body.provider = OtherProvider
  /\ last.out.err = ErrProvider

(* C10: a request whose expiry is not after the current time submits no    *)
(* request call: every submitted request call carries a future expiry.     *)
C10_ExpiryInFuture ==
  (last.op = "request" /\ Submitted("request")) =>
    last.out.calls[1].sessionExpiry > last.at

(* the threshold of the 30-second window, set one below the request calls  *)
(* a behaviour may deliver, so that the call after the threshold is        *)
(* within reach                                                            *)
Threshold == MaxRequests - 1

(* C11: when more than Threshold requests for the same (salt, alias) are   *)
(* issued within 30 seconds, the one after the threshold submits no        *)
(* request call: a submitted request call is never the (Threshold+1)-th of *)
(* its (salt, alias) in the 30 seconds up to it.                           *)
C11_RateLimited ==
  (last.op = "request" /\ Submitted("request")) =>
    getImmediateSessionRequestCount(issued, last.out.calls[1].salt, last.alias,
                                    last.at, FALSE) <= Threshold

(* the last invocation is a confirm whose ledger read answered *)
ReadAnswered == last.op = "confirm" /\ last.out.read # <<>>

(* C12: a confirm for a (provider, sessionRequestHash) the ledger holds no *)
(* record of is rejected as not found, by an explicit absence check: it is *)
(* neither taken for an expired session nor reported as a hash mismatch.   *)
C12_AbsentIsNotFound ==
  (ReadAnswered /\ ~last.out.read[1].found) =>
    /\ last.out.calls = <<>>
    /\ last.out.logged = ErrNotFound
    /\ last.out.err \notin {ErrSessionExpired, ErrChallengeExpired, ErrSessionHash}
    /\ last.out.status = NOT_FOUND

SessionExpiryPassed ==
  ReadAnswered /\ last.out.read[1].found /\ last.out.read[1].sessionExpiry < last.at

OnlyChallengeExpiryPassed ==
  /\ ReadAnswered
  /\ last.out.read[1].found
  /\ last.out.read[1].sessionExpiry >= last.at
  /\ last.out.read[1].challengeExpiry < last.at

(* C13: a confirm against a record whose sessionExpiry has passed is       *)
(* answered to the caller with the session-expired error, one whose        *)
(* challengeExpiry alone has passed with the challenge-expired error;      *)
(* neither is answered as a hash mismatch.                                 *)
C13_SpecificExpiryKind ==
  /\ SessionExpiryPassed =>
       (last.out.message = ErrSessionExpired /\ last.out.err # ErrSessionHash)
  /\ OnlyChallengeExpiryPassed =>
       (last.out.message = ErrChallengeExpired /\ last.out.err # ErrSessionHash)

(* the last invocation is a confirm whose ledger read failed *)
ReadFailed ==
  /\ last.op = "confirm"
  /\ "contract.sessionRequests" \in Events(last.out.trace)
  /\ last.x.read = "fail"

(* C14: a failed ledger read during confirm is not answered as not found,  *)
(* as an expiry, as a hash mismatch or as an invalid request.              *)
C14_OracleUnavailableDistinct ==
  ReadFailed =>
    /\ last.out.err \notin {ErrNotFound, ErrSessionExpired, ErrChallengeExpired,
                            ErrSessionHash}
    /\ last.out.status \notin {BAD_REQUEST, NOT_FOUND}
    /\ last.out.http \notin {BAD_REQUEST, NOT_FOUND}

BundlerCalls(trace) == Cardinality({ i \in 1..Len(trace) : trace[i] = "bundler.call" })

(* C15: an invocation calls the relay at most once; when that call fails,  *)
(* the invocation answers an error, returns no transaction id and hands no *)
(* call to the ledger.                                                     *)
C15_RelayOnceFailureSurfaced ==
  last.op \in {"request", "confirm"} =>
    /\ BundlerCalls(last.out.trace) <= 1
    /\ Len(last.out.calls) <= 1
    /\ (BundlerCalls(last.out.trace) = 1 /\ last.x.relay = "fail") =>
         /\ last.out.tx = ""
         /\ last.out.calls = <<>>
         /\ last.out.err = ErrRelay
         /\ last.out.http = INTERNAL_SERVER_ERROR

C15_Witness ==
  /\ last.op \in {"request", "confirm"}
  /\ BundlerCalls(last.out.trace) = 1
  /\ last.x.relay = "fail"
  /\ last.out.err = ErrRelay

(* the signature check of the last invocation reached its recovery step *)
ReachedVerify ==
  /\ last.op \in {"request", "confirm"}
  /\ last.body.present
  /\ ~Falsy(last.body.owner)
  /\ "verifyMessage" \in Events(last.out.trace)

(* the supplied signature and the hash the handler verifies it over *)
SuppliedSignature ==
  IF last.op = "request" THEN last.body.signature ELSE last.body.signedSessionHash

VerifiedHash ==
  IF last.op = "request"
  THEN generateSessionRequestHash(last.body.provider, last.body.owner,
         generateSessionSalt(Normalized(last.body.source, last.body.type), last.body.type),
         last.body.expiry)
  ELSE last.body.sessionHash

(* what the signature check of the last invocation did *)
Verified ==
  IF last.op = "request"
  THEN verifySessionRequest(last.body.provider, last.body.owner,
         Normalized(last.body.source, last.body.type), last.body.type,
         last.body.expiry, last.body.signature).ok
  ELSE verifySessionConfirm(last.body.owner, last.body.sessionHash,
                            last.body.signedSessionHash).ok

VerifyThrew ==
  IF last.op = "request"
  THEN verifySessionRequest(last.body.provider, last.body.owner,
         Normalized(last.body.source, last.body.type), last.body.type,
         last.body.expiry, last.body.signature).threw
  ELSE verifySessionConfirm(last.body.owner, last.body.sessionHash,
                            last.body.signedSessionHash).threw

(* C16: signature verification never throws: the request-signature check   *)
(* and the confirm-signature check return false for a malformed signature. *)
C16_VerifyNeverThrows ==
  ReachedVerify => (~VerifyThrew /\ last.out.err # ErrRecover)

(* C17: verification succeeds exactly when the signature is one over the   *)
(* verified hash by the key whose address is the expected address, letter  *)
(* case aside.                                                             *)
C17_CaseNormalizedVerify ==
  (ReachedVerify /\ Len(SuppliedSignature) = 3 /\ VerifiedHash # NoHash) =>
    (Verified <=>
       /\ SuppliedSignature[3] = VerifiedHash
       /\ AddressBytes(AddressOf(SuppliedSignature[2])) = AddressBytes(last.body.owner))

(* the integers of the given number of decimal digits *)
Interval(digits) == (10 ^ (digits - 1)) .. (10 ^ digits - 1)

(* the results of generateOtp over every draw of Math.random() *)
OtpResults(count) == { generateOtp(count, r) : r \in 0..(RandomDenom - 1) }

(* C18: a numeric challenge of the given digits lies in                    *)
(* [10^(digits-1), 10^digits - 1], and every integer of the interval is a  *)
(* possible result (checked for the digit counts whose interval the draws  *)
(* are fine enough to cover); the 6-digit challenges of the handlers lie   *)
(* in 100000..999999.                                                      *)
C18_ChallengeRange ==
  /\ \A d \in 1..OtpDigits : OtpResults(d) \subseteq Interval(d)
  /\ \A d \in 1..OtpDigits :
       RandomDenom >= Cardinality(Interval(d)) => OtpResults(d) = Interval(d)
  /\ (last.out.challenge # <<>> /\ last.out.challenge[1] = "otp") =>
       last.out.challenge[2] \in Interval(OtpDigits)

SuccessfulRequest ==
  /\ last.op = "request"
  /\ Submitted("request")
  /\ last.out.http = OK
  /\ last.out.status = OK
  /\ last.out.tx # ""

(* the challenge bound into the sessionHash the request call carries *)
BoundChallenge == last.out.calls[1].signedSessionHash[3][3]

(* C19: after a successful request of type email or sms the challenge      *)
(* bound into the submitted sessionHash is sent once, through the notifier *)
(* of that type, to the normalized source, and the response does not carry *)
(* it; for type passkey nothing is sent and the response carries the       *)
(* challenge message.                                                      *)
C19_ChallengeDelivery ==
  SuccessfulRequest =>
    IF last.body.type = "passkey"
    THEN /\ last.out.sent = <<>>
         /\ last.out.json.sessionRequestChallengeHash = <<BoundChallenge>>
    ELSE /\ Len(last.out.sent) = 1
         /\ last.out.sent[1].channel = last.body.type
         /\ last.out.sent[1].to = Normalized(last.body.source, last.body.type)
         /\ last.out.sent[1].otp = BoundChallenge
         /\ last.out.json.sessionRequestChallengeHash = <<>>

(* C20: the sessionRequestChallengeExpiry of the response to a successful  *)
(* passkey request is the challengeExpiry of the request call submitted in *)
(* that invocation.                                                        *)
C20_ResponseChallengeExpiry ==
  (SuccessfulRequest /\ last.body.type = "passkey" /\ last.handler = "part_004") =>
    last.out.json.sessionRequestChallengeExpiry = <<last.out.calls[1].challengeExpiry>>

(* the last invocation ended in an error of the caller's making: a body    *)
(* field missing or malformed, a provider other than the configured one, a *)
(* signature not the owner's, or a sessionHash other than the issued one   *)
CallerFault ==
  /\ last.op \in {"request", "confirm"}
  /\ \/ last.out.err \in ValidationErrors \cup {ErrProvider, ErrSignature, ErrConfirm}
     \/ last.out.err = ErrSessionHash /\ last.out.logged = ""

(* C21: every caller-fault error kind (validation error, invalid provider, *)
(* invalid signature, invalid confirmation, hash mismatch) is answered, in *)
(* request and in confirm, with HTTP 400 and status 400 in the body, never *)
(* with 500 and never with HTTP 200.                                       *)
C21_CallerFaultIs400 ==
  CallerFault => (last.out.http = BAD_REQUEST /\ last.out.status = BAD_REQUEST)

ChallengeEvents == {"generateSessionChallenge", "generateConnectionMessage"}
SessionHashEvents == {"generateSessionHash", "signMessage"}

(* the last invocation is a request that computed or signed a sessionHash *)
ComputedSessionHash ==
  /\ last.op = "request"
  /\ Events(last.out.trace) \cap SessionHashEvents # {}

(* C22: in every request invocation that computes or signs a sessionHash a *)
(* non-empty challenge was generated earlier in that invocation, by        *)
(* exactly one challenge-generation strategy, and it is the challenge the  *)
(* submitted sessionHash binds.                                            *)
C22_ChallengeBeforeSessionHash ==
  ComputedSessionHash =>
    /\ last.out.challenge # <<>>
    /\ Cardinality({ i \in 1..Len(last.out.trace) :
                       last.out.trace[i] \in ChallengeEvents }) = 1
    /\ \A c \in ChallengeEvents, h \in SessionHashEvents : Precedes(last.out.trace, c, h)
    /\ Submitted("request") => last.out.calls[1].signedSessionHash[3][3] = last.out.challenge

C22_Witness ==
  /\ ComputedSessionHash
  /\ last.handler = "part_004"
  /\ last.body.type = "passkey"
  /\ Submitted("request")

(* C23: the challengeExpiry of every submitted request call is the time of *)
(* issuance in seconds plus 120, whatever sessionExpiry the caller asked   *)
(* for.                                                                    *)
C23_ChallengeExpiryHorizon ==
  (last.op = "request" /\ Submitted("request")) =>
    last.out.calls[1].challengeExpiry = last.at + ChallengeHorizon

(* a request call whose session ends before its challenge does *)
C23_Witness ==
  /\ last.op = "request"
  /\ Submitted("request")
  /\ last.out.calls[1].sessionExpiry < last.out.calls[1].challengeExpiry

(* the body carries an expiry outside the uint48 range or a provider or    *)
(* owner that is no address                                                *)
Unencodable(b) ==
  /\ b.present
  /\ ~InUint48(b.expiry) \/ ~IsAddress(b.provider) \/ ~IsAddress(b.owner)

(* C24: deriveSessionRequestHash answers an expiry outside the 48-bit      *)
(* unsigned range, or a malformed provider or owner address, with an       *)
(* encoding error instead of a hash; a request carrying such an expiry or  *)
(* address ends in an error result, and no request call reaches the relay. *)
C24_UnencodableRejected ==
  (last.op = "request" /\ Unencodable(last.body)) =>
    /\ generateSessionRequestHash(last.body.provider, last.body.owner,
         generateSessionSalt(Normalized(last.body.source, last.body.type), last.body.type),
         last.body.expiry) = EncodingError
    /\ last.out.verified = <<>>
    /\ last.out.calls = <<>>
    /\ last.out.tx = ""
    /\ last.out.status # OK
    /\ "bundler.call" \notin Events(last.out.trace)

(* a request with an expiry below the range whose hashing threw *)
C24_Witness ==
  /\ last.op = "request"
  /\ last.body.present
  /\ ~InUint48(last.body.expiry)
  /\ last.out.err = ErrEncoding

(* the challenges a caller may guess for the request call just submitted,  *)
(* the issued one aside                                                    *)
OtherChallenges ==
  ChallengeChoices(last.out.calls[1].sessionRequestHash) \ {last.out.challenge}

C27_AlwaysAResponse ==
  last.op \in {"request", "confirm"} =>
    /\ last.out.http # 0
    /\ last.out.tx # "" \/ last.out.status \notin {0, OK}

(* the last invocation came upon a secret or setting the deployment lacks: *)
(* the handlers of post.ts and patch.ts read the key and the provider      *)
(* account before anything else, the others throw where they need the key  *)
(* or the configuration URL                                                *)
SettingMissing ==
  /\ last.op \in {"request", "confirm"}
  /\ \/ last.out.err \in {ErrKey, ErrConfigUrl}
     \/ /\ last.handler \in {"post.ts", "patch.ts:23", "patch.ts:143"}
        /\ ~env.key \/ env.account = ""

(* C29: a missing secret or setting (PROVIDER_PRIVATE_KEY,                 *)
(* COMMUNITIES_CONFIG_URL, provider account address) is reported, in       *)
(* request and in confirm, as HTTP 500 with a message that does not name   *)
(* the setting.                                                            *)
C29_MissingSettingIs500 ==
  SettingMissing =>
    /\ last.out.http = INTERNAL_SERVER_ERROR
    /\ last.out.message \notin {ErrKey, ErrConfigUrl}

(* one step of the interleaved handlers, seen from outside:                *)
(*  - a step changes the frame of at most one invocation;                  *)
(*  - what a confirm reads is the record the ledger holds at that moment,  *)
(*    stamped with the clock of that moment, its own inputs untouched;     *)
(*  - the response of a confirm is the handler's function of its own       *)
(*    inputs, the clock it read and the record it read, and the call it    *)
(*    submits is the only thing it leaves behind;                          *)
(*  - the ledger changes only by a call an invocation submitted.           *)
C28_Step ==
  /\ \A s \in Slots :
       inflight'[s] # inflight[s] => \A u \in Slots \ {s} : inflight'[u] = inflight[u]
  /\ \A s \in Slots :
       (inflight[s].pc = "read" /\ inflight'[s].pc = "submit") =>
         /\ inflight'[s].seen =
              IF inflight[s].x.read # "ok" THEN <<>>
              ELSE <<sessionRequests(ledger, primarySessionProvider,
                                     inflight[s].body.sessionRequestHash)>>
         /\ inflight'[s].at = now
         /\ inflight'[s].body = inflight[s].body
         /\ inflight'[s].x = inflight[s].x
         /\ inflight'[s].alias = inflight[s].alias
  /\ (last.op = "none" /\ last'.op = "confirm") =>
       /\ last'.out = PATCH_generateotp_ts(last'.alias, last'.body, last'.x, env,
                                           last'.at, AsLedger(last'.out.read))
       /\ ledger' = LedgerApplyAll(ledger, last'.out.calls)
  /\ (last.op = "none" /\ last'.op = "request") =>
       /\ last'.out = POST_part_004(last'.alias, last'.body, last'.x, env, now)
       /\ ledger' = LedgerApplyAll(ledger, last'.out.calls)
  /\ ledger' # ledger => (last.op = "none" /\ last'.out.calls # <<>>)

(* C28: request and confirm invocations share no in-process state: in      *)
(* every interleaving the result of an invocation and the calls it makes   *)
(* depend only on its own inputs, the clock and what its collaborators     *)
(* answered, and concurrent confirms for the same sessionRequestHash       *)
(* interact only through the ledger record.                                *)
C28_NoSharedState == [][C28_Step]_vars

(* two confirms for the same sessionRequestHash in flight at once: one has *)
(* submitted its confirm call, the other still holds the unconfirmed       *)
(* record it read before                                                   *)
C28_Witness ==
  /\ last.op = "confirm"
  /\ Submitted("confirm")
  /\ \E s \in Slots :
       /\ inflight[s].pc = "submit"
       /\ inflight[s].body.sessionRequestHash = last.body.sessionRequestHash
       /\ inflight[s].seen # <<>>
       /\ inflight[s].seen[1].found
       /\ ~inflight[s].seen[1].confirmed
       /\ sessionRequests(ledger, primarySessionProvider,
                          last.body.sessionRequestHash).confirmed

(* the last invocation is a confirm whose ledger read returned a record *)
OracleRead == last.op = "confirm" /\ last.out.read # <<>>

(* C31: the oracle checks sessionExpiry before challengeExpiry and the     *)
(* first failing check wins: for a record both of whose expiries have      *)
(* passed the error raised is the session-expired one, and the             *)
(* challenge-expired one is raised only when sessionExpiry has not passed. *)
C31_SessionExpiryFirst ==
  OracleRead =>
    /\ last.out.read[1].sessionExpiry < last.at => last.out.logged = ErrSessionExpired
    /\ last.out.logged = ErrChallengeExpired =>
         /\ last.out.read[1].sessionExpiry >= last.at
         /\ last.out.read[1].challengeExpiry < last.at

(* a record of the ledger both of whose expiries have passed is read *)
C31_Witness ==
  /\ OracleRead
  /\ last.out.read[1].found
  /\ last.out.read[1].sessionExpiry < last.at
  /\ last.out.read[1].challengeExpiry < last.at
  /\ last.out.logged = ErrSessionExpired

SendEvents == {"sendOtpEmail", "sendOtpSMS"}

(* the last invocation is a request that handed a challenge to a notifier *)
ChallengeHandedOver ==
  /\ last.op = "request"
  /\ last.out.sent # <<>> \/ Events(last.out.trace) \cap SendEvents # {}

(* C32: in request the challenge is handed to the notifier only after the  *)
(* relay submission of the request call has returned a transaction id;     *)
(* when the relay submission fails, no challenge is sent in that           *)
(* invocation.                                                             *)
C32_SendAfterSubmit ==
  /\ ChallengeHandedOver =>
       /\ last.out.tx # ""
       /\ Submitted("request")
       /\ "bundler.call" \in Events(last.out.trace)
       /\ \A e \in SendEvents : Precedes(last.out.trace, "bundler.call", e)
  /\ (last.op = "request" /\ (last.out.err = ErrRelay \/ last.out.tx = "")) =>
       /\ last.out.sent = <<>>
       /\ Events(last.out.trace) \cap SendEvents = {}

(* a challenge handed to the notifier after the relay returned *)
C32_Witness ==
  /\ ChallengeHandedOver
  /\ last.out.tx # ""
  /\ Len(last.out.sent) = 1

(* the body of the last invocation is absent or lacks a required field *)
InvalidBody ==
  \/ /\ last.op = "request"
     /\ \/ ~last.body.present
        \/ Falsy(last.body.provider) \/ Falsy(last.body.owner) \/ Falsy(last.body.source)
        \/ last.body.type \notin SourceTypes
        \/ last.body.expiry = 0
        \/ last.body.signature = NoSignature
  \/ /\ last.op = "confirm"
     /\ \/ ~last.body.present
        \/ Falsy(last.body.provider) \/ Falsy(last.body.owner)
        \/ last.body.sessionRequestHash = NoHash
        \/ last.body.sessionHash = NoHash
        \/ last.body.signedSessionHash = NoSignature

(* C33: a request or confirm body that is absent, or in which a required   *)
(* field is missing, empty or of the wrong type (for request also a type   *)
(* outside email, sms, passkey), is rejected before any configuration      *)
(* lookup, signature recovery, ledger read, relay submission or notifier   *)
(* call of that invocation.                                                *)
C33_ValidationFirst ==
  InvalidBody =>
    /\ last.out.tx = ""
    /\ last.out.calls = <<>>
    /\ last.out.sent = <<>>
    /\ Events(last.out.trace) \cap
         ({"getConfigOfAlias", "fetch", "verifyMessage"} \cup StateEvents) = {}

(* the window, in seconds, of a count query *)
WindowOf(fn) ==
  CASE fn = "getRecentSessionRequestCount" -> RecentWindow
    [] fn = "getDailySessionRequestCount" -> DailyWindow
    [] OTHER -> ImmediateWindow

(* the rows the last count query was asked about *)
CountedRows ==
  { i \in 1..Len(store.counted.of) :
      /\ store.counted.of[i].salt = store.counted.salt
      /\ store.counted.of[i].alias = store.counted.alias
      /\ store.counted.of[i].created_at >= store.counted.at - WindowOf(store.counted.fn) }

(* C34: the rate-limit count queries fail open: when the storage query for *)
(* a (salt, alias) window (30 s, 10 min or 24 h) returns an error or no    *)
(* row, the count reported is 0, so a storage failure never produces a     *)
(* count above any threshold; a query that answers reports the rows of the *)
(* window.                                                                 *)
C34_CountsFailOpen ==
  store.counted.fn \in CountQueries =>
    /\ (store.counted.error \/ CountedRows = {}) => store.counted.count = 0
    /\ store.counted.count <= Cardinality(CountedRows)
    /\ ~store.counted.error => store.counted.count = Cardinality(CountedRows)

(* a failed query on a window that holds rows *)
C34_Witness ==
  /\ store.counted.fn = "getImmediateSessionRequestCount"
  /\ store.counted.error
  /\ Cardinality(CountedRows) = 2
  /\ store.counted.count = 0
====
